---- MODULE Spec2Model ----
(***************************************************************************)
(* A model of the quota tracker's domain/persistence service (src/core.py):*)
(* TemplateRepository, DayRepository and QuotaService over the three       *)
(* SQLite tables template, day_item and day_status.                        *)
(*                                                                         *)
(* Python values are tagged records: the tag k names the Python type, so   *)
(* that the duck-typed template JSON keeps its types.  Python strings are  *)
(* TLA+ strings; Len, SubSeq and \o act on them character by character.    *)
(***************************************************************************)
EXTENDS Integers, Sequences, FiniteSets, TLC

VARIABLES
    schema,      \* TRUE once the CREATE TABLE statements have run
    template,    \* the rows of table template: {} or {[id |-> 1, data |-> text]}
    day_item,    \* the rows of table day_item
    day_status,  \* the rows of table day_status
    last,        \* the most recent service call and its outcome
    lifecycle,   \* history: per day, the close_day/reopen_day calls so far
    snapshot,    \* history: per day, what the first get_day that succeeded returned
    callers,     \* per concurrent caller, where it is in instantiate_day_if_needed
    txn          \* the database's write transaction: its connection and its rows

vars == <<schema, template, day_item, day_status, last, lifecycle, snapshot,
          callers, txn>>

-----------------------------------------------------------------------------
(* Python values *)

PyNone == [k |-> "none"]
PyStr(s) == [k |-> "str", s |-> s]
PyInt(n) == [k |-> "int", n |-> n]
PyList(l) == [k |-> "list", l |-> l]
PyDict(d) == [k |-> "dict", d |-> d]

IsStr(v) == v.k = "str"
IsInt(v) == v.k = "int"
IsList(v) == v.k = "list"
IsDict(v) == v.k = "dict"

\* key in d
HasKey(v, key) == key \in DOMAIN v.d

\* d.get(key, default)
Get(v, key, default) == IF HasKey(v, key) THEN v.d[key] ELSE default

\* Variant: setdefault that fills nothing in.
SetDefaultSkipped(v, key, default) == v

\* d.setdefault(key, default), as the dict it leaves behind
SetDefault(v, key, default) ==
    IF HasKey(v, key) THEN v ELSE PyDict(v.d @@ (key :> default))

-----------------------------------------------------------------------------
(* Strings *)

Whitespace == {" ", "\t", "\n", "\r"}

CharAt(s, i) == SubSeq(s, i, i)

RECURSIVE LStrip(_)
LStrip(s) ==
    IF Len(s) > 0 /\ CharAt(s, 1) \in Whitespace
    THEN LStrip(SubSeq(s, 2, Len(s)))
    ELSE s

RECURSIVE RStrip(_)
RStrip(s) ==
    IF Len(s) > 0 /\ CharAt(s, Len(s)) \in Whitespace
    THEN RStrip(SubSeq(s, 1, Len(s) - 1))
    ELSE s

\* str.strip()
Strip(s) == RStrip(LStrip(s))

Digits == <<"0", "1", "2", "3", "4", "5", "6", "7", "8", "9">>

IsDigit(c) == \E i \in 1..10 : Digits[i] = c

DigitValue(c) == (CHOOSE i \in 1..10 : Digits[i] = c) - 1

\* str(n) for an int n >= 0
RECURSIVE IntToStr(_)
IntToStr(n) ==
    IF n < 10 THEN Digits[n + 1]
    ELSE IntToStr(n \div 10) \o Digits[(n % 10) + 1]

RECURSIVE DigitsToInt(_, _)
DigitsToInt(s, acc) ==
    IF Len(s) = 0 THEN acc
    ELSE DigitsToInt(SubSeq(s, 2, Len(s)), 10 * acc + DigitValue(CharAt(s, 1)))

AllDigits(s) == Len(s) > 0 /\ \A i \in 1..Len(s) : IsDigit(CharAt(s, i))

-----------------------------------------------------------------------------
(* JSON text: json.dumps and json.loads on the values templates are made of *)

\* The keys a template item carries, in the order json.dumps writes them.
DictKeys == <<"id", "text", "importance", "subitems">>

RECURSIVE Dumps(_), DumpsElems(_, _), DumpsMembers(_, _, _)

\* json.dumps(v)
Dumps(v) ==
    CASE v.k = "none" -> "null"
      [] v.k = "int" -> IntToStr(v.n)
      [] v.k = "str" -> "\"" \o v.s \o "\""
      [] v.k = "list" -> "[" \o DumpsElems(v.l, 1) \o "]"
      [] v.k = "dict" -> "{" \o DumpsMembers(v.d, 1, TRUE) \o "}"

DumpsElems(l, i) ==
    IF i > Len(l) THEN ""
    ELSE (IF i > 1 THEN ", " ELSE "") \o Dumps(l[i]) \o DumpsElems(l, i + 1)

DumpsMembers(d, i, first) ==
    IF i > Len(DictKeys) THEN ""
    ELSE IF DictKeys[i] \in DOMAIN d
         THEN (IF first THEN "" ELSE ", ")
              \o "\"" \o DictKeys[i] \o "\": " \o Dumps(d[DictKeys[i]])
              \o DumpsMembers(d, i + 1, FALSE)
         ELSE DumpsMembers(d, i + 1, first)

\* s[i:j+1], cut at the end of s
Slice(s, i, j) ==
    IF i > Len(s) THEN "" ELSE SubSeq(s, i, IF j > Len(s) THEN Len(s) ELSE j)

\* json.JSONDecodeError
ParseFail == [ok |-> FALSE]

\* The first position at or after i that holds no digit.
RECURSIVE ScanDigits(_, _)
ScanDigits(s, i) ==
    IF i <= Len(s) /\ IsDigit(CharAt(s, i)) THEN ScanDigits(s, i + 1) ELSE i

\* The position of the first double quote at or after i; 0 when there is none.
RECURSIVE ScanQuote(_, _)
ScanQuote(s, i) ==
    IF i > Len(s) THEN 0
    ELSE IF CharAt(s, i) = "\"" THEN i
    ELSE ScanQuote(s, i + 1)

RECURSIVE ParseValue(_, _), ParseElems(_, _, _), ParseMembers(_, _, _)

\* The JSON value that starts at position i of s, and the position after it.
ParseValue(s, i) ==
    LET c == Slice(s, i, i) IN
    IF Slice(s, i, i + 3) = "null" THEN [ok |-> TRUE, v |-> PyNone, i |-> i + 4]
    ELSE IF c # "" /\ IsDigit(c)
    THEN LET j == ScanDigits(s, i) IN
         [ok |-> TRUE, v |-> PyInt(DigitsToInt(SubSeq(s, i, j - 1), 0)), i |-> j]
    ELSE IF c = "\""
    THEN LET j == ScanQuote(s, i + 1) IN
         IF j = 0 THEN ParseFail
         ELSE [ok |-> TRUE, v |-> PyStr(Slice(s, i + 1, j - 1)), i |-> j + 1]
    ELSE IF c = "["
    THEN IF Slice(s, i + 1, i + 1) = "]"
         THEN [ok |-> TRUE, v |-> PyList(<<>>), i |-> i + 2]
         ELSE ParseElems(s, i + 1, <<>>)
    ELSE IF c = "{"
    THEN IF Slice(s, i + 1, i + 1) = "}"
         THEN [ok |-> TRUE, v |-> PyDict(<<>>), i |-> i + 2]
         ELSE ParseMembers(s, i + 1, <<>>)
    ELSE ParseFail

ParseElems(s, i, acc) ==
    LET r == ParseValue(s, i) IN
    IF ~r.ok THEN ParseFail
    ELSE IF Slice(s, r.i, r.i) = "]"
    THEN [ok |-> TRUE, v |-> PyList(Append(acc, r.v)), i |-> r.i + 1]
    ELSE IF Slice(s, r.i, r.i + 1) = ", "
    THEN ParseElems(s, r.i + 2, Append(acc, r.v))
    ELSE ParseFail

ParseMembers(s, i, acc) ==
    LET key == ParseValue(s, i) IN
    IF ~key.ok \/ ~IsStr(key.v) \/ Slice(s, key.i, key.i + 1) # ": "
    THEN ParseFail
    ELSE LET r == ParseValue(s, key.i + 2) IN
         IF ~r.ok THEN ParseFail
         ELSE LET d == (key.v.s :> r.v) @@ acc IN
              IF Slice(s, r.i, r.i) = "}"
              THEN [ok |-> TRUE, v |-> PyDict(d), i |-> r.i + 1]
              ELSE IF Slice(s, r.i, r.i + 1) = ", "
              THEN ParseMembers(s, r.i + 2, d)
              ELSE ParseFail

\* json.loads(s): [ok |-> TRUE, v |-> value], or ParseFail on a JSONDecodeError
Loads(s) ==
    LET r == ParseValue(s, 1) IN
    IF r.ok /\ r.i = Len(s) + 1 THEN [ok |-> TRUE, v |-> r.v] ELSE ParseFail

-----------------------------------------------------------------------------
(* Python conversions the template expander applies *)

\* An exception leaving a function.
Raise(e) == [raised |-> e]

NoError == "none"

\* str(v)
StrOf(v) ==
    CASE v.k = "str" -> v.s
      [] v.k = "int" -> IntToStr(v.n)
      [] v.k = "none" -> "None"

\* int(v): [raised |-> NoError, n |-> the int], or the exception
IntOf(v) ==
    CASE v.k = "int" -> [raised |-> NoError, n |-> v.n]
      [] v.k = "str" -> IF AllDigits(Strip(v.s))
                        THEN [raised |-> NoError, n |-> DigitsToInt(Strip(v.s), 0)]
                        ELSE Raise("ValueError")
      [] OTHER -> Raise("TypeError")

\* bool(v)
Truthy(v) ==
    CASE v.k = "none" -> FALSE
      [] v.k = "int" -> v.n # 0
      [] v.k = "str" -> v.s # ""
      [] v.k = "list" -> Len(v.l) > 0
      [] v.k = "dict" -> DOMAIN v.d # {}

-----------------------------------------------------------------------------
(* TemplateRepository *)

DEFAULT_TEMPLATE ==
    PyList(<<
        PyDict([id |-> PyStr("progress"),
                text |-> PyStr("Progress: move a project forward"),
                importance |-> PyInt(3),
                subitems |-> PyList(<<>>)]),
        PyDict([id |-> PyStr("care"),
                text |-> PyStr("Care/Connection: serve or connect"),
                importance |-> PyInt(2),
                subitems |-> PyList(<<>>)]),
        PyDict([id |-> PyStr("maintenance"),
                text |-> PyStr("Maintenance: body / admin / environment"),
                importance |-> PyInt(2),
                subitems |-> PyList(<<>>)])
    >>)

\* One line of the flattened checklist.
FlatLine(item_id, item_text, importance) ==
    [item_id |-> item_id, item_text |-> item_text, importance |-> importance]

\* Variant: the inner loop of flatten with sub-items that default to importance
\* 1 instead of the parent's.
RECURSIVE FlattenSubsUninherited(_, _, _, _, _)
FlattenSubsUninherited(item, base_id, subs, j, flat) ==
    IF j > Len(subs) THEN [raised |-> NoError, flat |-> flat]
    ELSE LET sub == subs[j] IN
         IF ~IsDict(sub) THEN Raise("AttributeError")
         ELSE LET sub_id == base_id \o ":" \o StrOf(Get(sub, "id", PyInt(Len(flat))))
                  imp == IntOf(Get(sub, "importance", PyInt(1)))
              IN IF imp.raised # NoError THEN Raise(imp.raised)
                 ELSE FlattenSubsUninherited(item, base_id, subs, j + 1,
                          Append(flat, FlatLine(sub_id,
                                                Get(sub, "text", PyStr(sub_id)),
                                                imp.n)))

\* Variant: the inner loop of flatten with the sub-item's own id as item_id.
RECURSIVE FlattenSubsUnprefixed(_, _, _, _, _)
FlattenSubsUnprefixed(item, base_id, subs, j, flat) ==
    IF j > Len(subs) THEN [raised |-> NoError, flat |-> flat]
    ELSE LET sub == subs[j] IN
         IF ~IsDict(sub) THEN Raise("AttributeError")
         ELSE LET sub_id == StrOf(Get(sub, "id", PyInt(Len(flat))))
                  imp == IntOf(Get(sub, "importance", Get(item, "importance", PyInt(1))))
              IN IF imp.raised # NoError THEN Raise(imp.raised)
                 ELSE FlattenSubsUnprefixed(item, base_id, subs, j + 1,
                          Append(flat, FlatLine(sub_id,
                                                Get(sub, "text", PyStr(sub_id)),
                                                imp.n)))

\* The inner loop of flatten: the sub-items subs[j..] of item, appended to flat.
RECURSIVE FlattenSubs(_, _, _, _, _)
FlattenSubs(item, base_id, subs, j, flat) ==
    IF j > Len(subs) THEN [raised |-> NoError, flat |-> flat]
    ELSE LET sub == subs[j] IN
         IF ~IsDict(sub) THEN Raise("AttributeError")
         ELSE LET sub_id == base_id \o ":" \o StrOf(Get(sub, "id", PyInt(Len(flat))))
                  imp == IntOf(Get(sub, "importance", Get(item, "importance", PyInt(1))))
              IN IF imp.raised # NoError THEN Raise(imp.raised)
                 ELSE FlattenSubs(item, base_id, subs, j + 1,
                          Append(flat, FlatLine(sub_id,
                                                Get(sub, "text", PyStr(sub_id)),
                                                imp.n)))

\* The outer loop of flatten: the items data[i..], appended to flat.
RECURSIVE FlattenItems(_, _, _)
FlattenItems(data, i, flat) ==
    IF i > Len(data) THEN [raised |-> NoError, flat |-> flat]
    ELSE LET item == data[i] IN
         IF ~IsDict(item) THEN Raise("AttributeError")
         ELSE LET base_id == StrOf(Get(item, "id", PyNone))
                  imp == IntOf(Get(item, "importance", PyInt(1)))
              IN IF imp.raised # NoError THEN Raise(imp.raised)
                 ELSE LET flat1 == Append(flat, FlatLine(base_id,
                                              Get(item, "text", PyStr(base_id)),
                                              imp.n))
                          given == Get(item, "subitems", PyList(<<>>))
                          subs == IF Truthy(given) THEN given ELSE PyList(<<>>)
                      IN IF ~IsList(subs)
                         THEN Raise(IF subs.k = "int" THEN "TypeError"
                                    ELSE "AttributeError")
                         ELSE LET r == FlattenSubs(item, base_id, subs.l, 1, flat1) IN
                              IF r.raised # NoError THEN r
                              ELSE FlattenItems(data, i + 1, r.flat)

\* TemplateRepository.flatten(template_data)
flatten(template_data) == FlattenItems(template_data.l, 1, <<>>)

\* Variant: the loop of _validate_template without the id and text test.
RECURSIVE ValidateItemsUntested(_, _)
ValidateItemsUntested(data, i) ==
    IF i > Len(data) THEN [raised |-> NoError, data |-> PyList(data)]
    ELSE IF ~IsDict(data[i]) THEN Raise("AttributeError")
    ELSE ValidateItemsUntested(
             [data EXCEPT ![i] = SetDefault(SetDefault(data[i], "importance", PyInt(1)),
                                            "subitems", PyList(<<>>))],
             i + 1)

\* The loop of _validate_template over the items data[i..].
RECURSIVE ValidateItems(_, _)
ValidateItems(data, i) ==
    IF i > Len(data) THEN [raised |-> NoError, data |-> PyList(data)]
    ELSE LET item == data[i] IN
         IF ~IsDict(item) \/ ~HasKey(item, "id") \/ ~HasKey(item, "text")
         THEN Raise("ValueError: Each item must have id and text")
         ELSE ValidateItems(
                  [data EXCEPT ![i] = SetDefault(SetDefault(item, "importance", PyInt(1)),
                                                 "subitems", PyList(<<>>))],
                  i + 1)

\* TemplateRepository._validate_template(template_data): the exception, or the
\* list as the setdefault calls leave it
validate_template(template_data) ==
    IF ~IsList(template_data) THEN Raise("ValueError: Template must be a list")
    ELSE ValidateItems(template_data.l, 1)

\* The database file: the four state variables as one value.
DB ==
    [schema |-> schema, template |-> template,
     day_item |-> day_item, day_status |-> day_status]

\* A call that returns nothing and leaves the database db.
Done(db) == [raised |-> NoError, db |-> db]

\* A call that returns ret and leaves the database db.
Return(db, ret) == [raised |-> NoError, db |-> db, ret |-> ret]

\* The database after a call on db with outcome r: an exception leaves the
\* `with` block before any commit.
After(db, r) == IF r.raised = NoError THEN r.db ELSE db

\* sqlite3.OperationalError: no such table
NoSuchTable == "OperationalError"

\* UPDATE template SET data = ? WHERE id = 1
UpdateTemplate(rows, text) ==
    {IF r.id = 1 THEN [r EXCEPT !.data = text] ELSE r : r \in rows}

\* The body of save once _validate_template has run, v being its outcome.
SaveValidated(db, v) ==
    IF v.raised # NoError THEN Raise(v.raised)
    ELSE IF ~db.schema THEN Raise(NoSuchTable)
    ELSE Done([db EXCEPT !.template = UpdateTemplate(db.template, Dumps(v.data))])

\* TemplateRepository.save(template_data)
save(db, template_data) == SaveValidated(db, validate_template(template_data))

\* The try block of load, parsed being the outcome of json.loads.
ListOrDefault(parsed) ==
    IF parsed.ok /\ IsList(parsed.v) THEN parsed.v ELSE DEFAULT_TEMPLATE

\* TemplateRepository.load()
load(db) ==
    IF ~db.schema THEN Raise(NoSuchTable)
    ELSE IF \A r \in db.template : r.id # 1 THEN Return(db, DEFAULT_TEMPLATE)
    ELSE Return(db, ListOrDefault(Loads((CHOOSE r \in db.template : r.id = 1).data)))

\* TemplateRepository.init_schema() and DayRepository.init_schema()
init_schema(db) == [db EXCEPT !.schema = TRUE]

\* Variant: ensure_default that stores the default over whatever is stored.
EnsureDefaultAlways(db) ==
    [db EXCEPT !.template = {[id |-> 1, data |-> Dumps(DEFAULT_TEMPLATE)]}]

\* TemplateRepository.ensure_default()
ensure_default(db) ==
    IF Cardinality(db.template) = 0
    THEN [db EXCEPT !.template = {[id |-> 1, data |-> Dumps(DEFAULT_TEMPLATE)]}]
    ELSE db

-----------------------------------------------------------------------------
(* DayRepository *)

\* Printable ASCII (the backquote left out) in code order: SQLite's BINARY
\* collation compares bytes.
Ascii ==
    " !\"#$%&'()*+,-./0123456789:;<=>?@ABCDEFGHIJKLMNOPQRSTUVWXYZ[\\]^_abcdefghijklmnopqrstuvwxyz{|}~"

Ord(c) == CHOOSE i \in 1..Len(Ascii) : CharAt(Ascii, i) = c

\* a < b in the BINARY collation
RECURSIVE StrLess(_, _)
StrLess(a, b) ==
    IF Len(b) = 0 THEN FALSE
    ELSE IF Len(a) = 0 THEN TRUE
    ELSE IF CharAt(a, 1) = CharAt(b, 1)
         THEN StrLess(SubSeq(a, 2, Len(a)), SubSeq(b, 2, Len(b)))
         ELSE Ord(CharAt(a, 1)) < Ord(CharAt(b, 1))

\* date.isoformat() of day d of January 2024
isoformat(d) == "2024-01-" \o (IF d < 10 THEN "0" ELSE "") \o IntToStr(d)

\* SELECT * FROM day_item WHERE day = ?
RowsOfDay(items, d) == {r \in items : r.day = isoformat(d)}

\* Variant: INSERT OR REPLACE, where the last line with an item_id wins.
InsertOrReplace(items, day_str, line) ==
    [raised |-> NoError,
     items |-> {r \in items : ~(r.day = day_str /\ r.item_id = line.item_id)}
               \cup {[day |-> day_str,
                      item_id |-> line.item_id,
                      item_text |-> StrOf(line.item_text),
                      importance |-> line.importance,
                      checked |-> 0,
                      evidence |-> "",
                      why |-> "",
                      checked_at |-> PyNone]}]

\* INSERT OR IGNORE INTO day_item ... VALUES (?, ?, ?, ?, 0, '', '', NULL): the
\* row is skipped on a primary key conflict and on a NULL in a NOT NULL column;
\* a value sqlite3 cannot bind raises.
InsertOrIgnore(items, day_str, line) ==
    IF line.item_text.k \in {"list", "dict"} THEN Raise("ProgrammingError")
    ELSE IF \/ \E r \in items : r.day = day_str /\ r.item_id = line.item_id
            \/ line.item_text.k = "none"
    THEN [raised |-> NoError, items |-> items]
    ELSE [raised |-> NoError,
          items |-> items \cup {[day |-> day_str,
                                 item_id |-> line.item_id,
                                 item_text |-> StrOf(line.item_text),
                                 importance |-> line.importance,
                                 checked |-> 0,
                                 evidence |-> "",
                                 why |-> "",
                                 checked_at |-> PyNone]}]

\* The insert loop of instantiate_day_if_needed over flat[i..], then the commit;
\* an exception rolls the transaction back.
RECURSIVE InsertLines(_, _, _, _)
InsertLines(db, day_str, flat, i) ==
    IF i > Len(flat) THEN Done(db)
    ELSE LET r == InsertOrIgnore(db.day_item, day_str, flat[i]) IN
         IF r.raised # NoError THEN Raise(r.raised)
         ELSE InsertLines([db EXCEPT !.day_item = r.items], day_str, flat, i + 1)

\* The body of instantiate_day_if_needed from the loop on, flat being the
\* outcome of flatten.
InsertFlat(db, d, flat) ==
    IF flat.raised # NoError THEN Raise(flat.raised)
    ELSE InsertLines(db, isoformat(d), flat.flat, 1)

\* Variant: instantiate_day_if_needed without the check for rows of the day.
InstantiateDayAlways(db, d) ==
    IF ~db.schema THEN Raise(NoSuchTable)
    ELSE InsertFlat(db, d, flatten(load(db).ret))

\* DayRepository.instantiate_day_if_needed(day)
instantiate_day_if_needed(db, d) ==
    IF ~db.schema THEN Raise(NoSuchTable)
    ELSE IF Cardinality(RowsOfDay(db.day_item, d)) > 0 THEN Done(db)
    ELSE InsertFlat(db, d, flatten(load(db).ret))

\* Variant: ORDER BY item_id DESC
RECURSIVE OrderByItemIdDesc(_)
OrderByItemIdDesc(rs) ==
    IF rs = {} THEN <<>>
    ELSE LET first == CHOOSE r \in rs :
                          \A q \in rs : q = r \/ ~StrLess(r.item_id, q.item_id)
         IN <<first>> \o OrderByItemIdDesc(rs \ {first})

\* ORDER BY item_id
RECURSIVE OrderByItemId(_)
OrderByItemId(rs) ==
    IF rs = {} THEN <<>>
    ELSE LET first == CHOOSE r \in rs :
                          \A q \in rs : q = r \/ ~StrLess(q.item_id, r.item_id)
         IN <<first>> \o OrderByItemId(rs \ {first})

\* The SELECT of get_day_items, r being the outcome of instantiate_day_if_needed.
SelectDayItems(r, d) ==
    IF r.raised # NoError THEN r
    ELSE Return(r.db, OrderByItemId(RowsOfDay(r.db.day_item, d)))

\* DayRepository.get_day_items(day)
get_day_items(db, d) == SelectDayItems(instantiate_day_if_needed(db, d), d)

\* x BETWEEN lo AND hi, on TEXT
Between(x, lo, hi) == ~StrLess(x, lo) /\ ~StrLess(hi, x)

\* Variant: get_checked_days without "AND checked = 1".
GetCheckedDaysUnfiltered(db, month_start, month_end) ==
    IF ~db.schema THEN Raise(NoSuchTable)
    ELSE Return(db, {r.day : r \in {q \in db.day_item :
                                       Between(q.day, isoformat(month_start),
                                               isoformat(month_end))}})

\* DayRepository.get_checked_days(month_start, month_end), to which
\* QuotaService.get_checked_days delegates:
\* SELECT DISTINCT day FROM day_item WHERE day BETWEEN ? AND ? AND checked = 1
get_checked_days(db, month_start, month_end) ==
    IF ~db.schema THEN Raise(NoSuchTable)
    ELSE Return(db, {r.day : r \in {q \in db.day_item :
                                       /\ Between(q.day, isoformat(month_start),
                                                  isoformat(month_end))
                                       /\ q.checked = 1}})

\* DayRepository.is_day_closed(day)
is_day_closed(db, d) ==
    IF ~db.schema THEN Raise(NoSuchTable)
    ELSE IF \E r \in db.day_status : r.day = isoformat(d)
    THEN Return(db, (CHOOSE r \in db.day_status : r.day = isoformat(d)).closed # 0)
    ELSE Return(db, FALSE)

\* Variant: an UPDATE that leaves checked_at NULL.
UpdateDayItemUnstamped(items, checked, evidence, why, flag, now, day_str, item_id) ==
    {IF r.day = day_str /\ r.item_id = item_id
     THEN [r EXCEPT !.checked = checked,
                    !.evidence = evidence,
                    !.why = why,
                    !.checked_at = PyNone]
     ELSE r : r \in items}

\* Variant: an UPDATE ... WHERE item_id = ?, which marks the item on every day.
UpdateDayItemOfEveryDay(items, checked, evidence, why, flag, now, day_str, item_id) ==
    {IF r.item_id = item_id
     THEN [r EXCEPT !.checked = checked,
                    !.evidence = evidence,
                    !.why = why,
                    !.checked_at = IF flag = 1 THEN now ELSE PyNone]
     ELSE r : r \in items}

\* Variant: an UPDATE ... WHERE day = ?, which marks every row of the day.
UpdateDayItemOfWholeDay(items, checked, evidence, why, flag, now, day_str, item_id) ==
    {IF r.day = day_str
     THEN [r EXCEPT !.checked = checked,
                    !.evidence = evidence,
                    !.why = why,
                    !.checked_at = IF flag = 1 THEN now ELSE PyNone]
     ELSE r : r \in items}

\* UPDATE day_item SET checked = ?, evidence = ?, why = ?,
\* checked_at = CASE WHEN ? = 1 THEN ? ELSE NULL END WHERE day = ? AND item_id = ?
UpdateDayItem(items, checked, evidence, why, flag, now, day_str, item_id) ==
    {IF r.day = day_str /\ r.item_id = item_id
     THEN [r EXCEPT !.checked = checked,
                    !.evidence = evidence,
                    !.why = why,
                    !.checked_at = IF flag = 1 THEN now ELSE PyNone]
     ELSE r : r \in items}

\* raise ValueError("Evidence is required"): the spec's ValidationError
EvidenceRequired == "ValueError: Evidence is required"

\* raise ValueError("Day is closed. Reopen to edit."): the spec's DayClosedError
DayIsClosed == "ValueError: Day is closed. Reopen to edit."

\* The UPDATE of set_item_checked and its commit.
UpdateChecked(db, d, item_id, checked, evidence, why, now) ==
    Done([db EXCEPT !.day_item =
              UpdateDayItem(db.day_item,
                            IF checked THEN 1 ELSE 0,
                            Strip(evidence),
                            Strip(why),
                            IF checked THEN 1 ELSE 0,
                            IF checked THEN PyStr(now) ELSE PyNone,
                            isoformat(d),
                            item_id)])

\* Variant: set_item_checked without the closed-day check.
SetItemCheckedIgnoringClosed(db, d, item_id, checked, evidence, why, now) ==
    IF checked /\ Strip(evidence) = "" THEN Raise(EvidenceRequired)
    ELSE IF ~db.schema THEN Raise(NoSuchTable)
    ELSE UpdateChecked(db, d, item_id, checked, evidence, why, now)

\* Variant: set_item_checked with the closed-day check before the evidence check.
SetItemCheckedClosedFirst(db, d, item_id, checked, evidence, why, now) ==
    LET closed == is_day_closed(db, d) IN
    IF closed.raised # NoError THEN Raise(closed.raised)
    ELSE IF closed.ret THEN Raise(DayIsClosed)
    ELSE IF checked /\ Strip(evidence) = "" THEN Raise(EvidenceRequired)
    ELSE UpdateChecked(db, d, item_id, checked, evidence, why, now)

\* Variant: set_item_checked without the evidence check.
SetItemCheckedWithoutEvidence(db, d, item_id, checked, evidence, why, now) ==
    LET closed == is_day_closed(db, d) IN
    IF closed.raised # NoError THEN Raise(closed.raised)
    ELSE IF closed.ret THEN Raise(DayIsClosed)
    ELSE UpdateChecked(db, d, item_id, checked, evidence, why, now)

\* DayRepository.set_item_checked(day, item_id, checked, evidence, why), with
\* the clock reading now
set_item_checked(db, d, item_id, checked, evidence, why, now) ==
    IF checked /\ Strip(evidence) = "" THEN Raise(EvidenceRequired)
    ELSE LET closed == is_day_closed(db, d) IN
         IF closed.raised # NoError THEN Raise(closed.raised)
         ELSE IF closed.ret THEN Raise(DayIsClosed)
         ELSE UpdateChecked(db, d, item_id, checked, evidence, why, now)

\* Variant: INSERT OR IGNORE INTO day_status, which keeps the row a day has.
InsertDayStatusOrIgnore(status, row) ==
    IF \E r \in status : r.day = row.day THEN status ELSE status \cup {row}

\* Variant: INSERT OR REPLACE without a key, which leaves the new row alone in
\* the table.
ReplaceDayStatus(status, row) == {row}

\* INSERT INTO day_status ... ON CONFLICT(day) DO UPDATE SET closed, closed_at
UpsertDayStatus(status, row) == {r \in status : r.day # row.day} \cup {row}

\* Variant: set_day_closed whose reopening leaves closed_at as it was.
SetDayClosedKeepingStamp(db, d, closed, now) ==
    IF ~db.schema THEN Raise(NoSuchTable)
    ELSE IF closed
    THEN Done([db EXCEPT !.day_status =
                   UpsertDayStatus(db.day_status,
                       [day |-> isoformat(d), closed |-> 1, closed_at |-> PyStr(now)])])
    ELSE IF \E r \in db.day_status : r.day = isoformat(d)
    THEN Done([db EXCEPT !.day_status =
                   {IF r.day = isoformat(d) THEN [r EXCEPT !.closed = 0] ELSE r
                        : r \in db.day_status}])
    ELSE Done([db EXCEPT !.day_status =
                   db.day_status
                   \cup {[day |-> isoformat(d), closed |-> 0, closed_at |-> PyNone]}])

\* DayRepository.set_day_closed(day, closed), with the clock reading now
set_day_closed(db, d, closed, now) ==
    IF ~db.schema THEN Raise(NoSuchTable)
    ELSE IF closed
    THEN Done([db EXCEPT !.day_status =
                   UpsertDayStatus(db.day_status,
                       [day |-> isoformat(d), closed |-> 1, closed_at |-> PyStr(now)])])
    ELSE Done([db EXCEPT !.day_status =
                   UpsertDayStatus(db.day_status,
                       [day |-> isoformat(d), closed |-> 0, closed_at |-> PyNone])])

-----------------------------------------------------------------------------
(* QuotaService: what each public operation raises, leaves and returns *)

\* QuotaService.initialize()
initialize(db) == Done(init_schema(ensure_default(init_schema(db))))

\* DayState(items=items, closed=closed), items being the outcome of get_day_items
DayState(items, d) ==
    IF items.raised # NoError THEN items
    ELSE Return(items.db,
                [items |-> items.ret, closed |-> is_day_closed(items.db, d).ret])

\* QuotaService.get_day(day)
get_day(db, d) == DayState(get_day_items(db, d), d)

\* QuotaService.mark_item(day, item_id, checked, evidence, why)
mark_item(db, d, item_id, checked, evidence, why, now) ==
    set_item_checked(db, d, item_id, checked, evidence, why, now)

\* QuotaService.close_day(day)
close_day(db, d, now) == set_day_closed(db, d, TRUE, now)

\* QuotaService.reopen_day(day)
reopen_day(db, d, now) == set_day_closed(db, d, FALSE, now)

\* QuotaService.load_template()
load_template(db) == load(db)

\* QuotaService.save_template(template_data)
save_template(db, template_data) == save(db, template_data)

\* return DEFAULT_TEMPLATE.copy(), saved being the outcome of the save before it
ReturnDefault(saved) ==
    IF saved.raised # NoError THEN saved ELSE Return(saved.db, DEFAULT_TEMPLATE)

\* Variant: reset_template that returns the default without saving it.
ResetTemplateUnsaved(db) ==
    IF ~db.schema THEN Raise(NoSuchTable) ELSE Return(db, DEFAULT_TEMPLATE)

\* QuotaService.reset_template()
reset_template(db) == ReturnDefault(save(db, Loads(Dumps(DEFAULT_TEMPLATE)).v))

-----------------------------------------------------------------------------
(* Inputs *)

\* Days of January 2024.
Days == {1}

\* What datetime.now().isoformat(timespec="seconds") reads.
Timestamps == {"2024-01-01T09:00:00"}

ItemIdInputs == {"a", "a:1"}

EvidenceInputs == {"", "  ", " did X "}

WhyInputs == {"", " because "}

\* []
EmptyTemplate == PyList(<<>>)

\* [{"id": "a", "text": "A", "subitems": [{"id": "1", "text": "A1"}]}]
SubitemTemplate ==
    PyList(<<PyDict([id |-> PyStr("a"), text |-> PyStr("A"),
                     subitems |-> PyList(<<PyDict([id |-> PyStr("1"),
                                                   text |-> PyStr("A1")])>>)])>>)

\* [{"id": "a", "text": "A", "importance": 2}, {"id": "a", "text": "B"}]
DuplicateIdTemplate ==
    PyList(<<PyDict([id |-> PyStr("a"), text |-> PyStr("A"), importance |-> PyInt(2)]),
             PyDict([id |-> PyStr("a"), text |-> PyStr("B")])>>)

TemplateInputs == {EmptyTemplate, SubitemTemplate, DuplicateIdTemplate}

\* The connections that call instantiate_day_if_needed at the same time.
Callers == {"c1", "c2"}

\* A caller that has not called yet.
Idle == [pc |-> "idle", flat |-> <<>>, i |-> 1, raised |-> NoError, raced |-> FALSE]

\* No connection holds the database's write lock.
NoTransaction == [writer |-> "none", rows |-> {}, order |-> <<>>]

-----------------------------------------------------------------------------
(* The service as a state machine: one action per public operation *)

Init ==
    /\ schema = FALSE
    /\ template = {}
    /\ day_item = {}
    /\ day_status = {}
    /\ last = [op |-> "construct", raised |-> NoError]
    /\ lifecycle = [d \in Days |-> "fresh"]
    /\ snapshot = [d \in Days |-> <<>>]
    /\ callers = [c \in Callers |-> Idle]
    /\ txn = NoTransaction

\* The call's transaction: committed, or rolled back when it raised.
Commit(r) ==
    IF r.raised = NoError
    THEN /\ schema' = r.db.schema
         /\ template' = r.db.template
         /\ day_item' = r.db.day_item
         /\ day_status' = r.db.day_status
    ELSE UNCHANGED <<schema, template, day_item, day_status>>

\* The record of a call and of what it raised or returned.
Outcome(call, r) ==
    IF r.raised = NoError /\ "ret" \in DOMAIN r
    THEN call @@ [raised |-> NoError, ret |-> r.ret]
    ELSE call @@ [raised |-> r.raised]

\* The item_id, item_text and importance of the rows get_day returned.
Lines(items) ==
    [i \in 1..Len(items) |->
        [item_id |-> items[i].item_id, item_text |-> items[i].item_text,
         importance |-> items[i].importance]]

\* A call with outcome r: its transaction and its record.
Call(call, r) ==
    /\ Commit(r)
    /\ last' = Outcome(call, r)
    /\ UNCHANGED <<callers, txn>>

\* The first get_day of day d that succeeds is the day's snapshot.
TakeSnapshot(d, r) ==
    snapshot' = IF r.raised = NoError /\ snapshot[d] = <<>>
                THEN [snapshot EXCEPT ![d] = <<Lines(r.ret.items)>>]
                ELSE snapshot

\* A close_day or reopen_day of day d that succeeded makes the day's history to.
Toggle(d, r, to) ==
    lifecycle' = IF r.raised = NoError THEN [lifecycle EXCEPT ![d] = to]
                 ELSE lifecycle

Initialize ==
    /\ Call([op |-> "initialize"], initialize(DB))
    /\ UNCHANGED <<lifecycle, snapshot>>

GetDay(d) ==
    /\ Call([op |-> "get_day", day |-> d], get_day(DB, d))
    /\ TakeSnapshot(d, get_day(DB, d))
    /\ UNCHANGED lifecycle

MarkItem(d, item_id, checked, evidence, why, now) ==
    /\ Call([op |-> "mark_item", day |-> d, item_id |-> item_id],
            mark_item(DB, d, item_id, checked, evidence, why, now))
    /\ UNCHANGED <<lifecycle, snapshot>>

CloseDay(d, now) ==
    /\ Call([op |-> "close_day", day |-> d], close_day(DB, d, now))
    /\ Toggle(d, close_day(DB, d, now), "closed")
    /\ UNCHANGED snapshot

ReopenDay(d, now) ==
    /\ Call([op |-> "reopen_day", day |-> d], reopen_day(DB, d, now))
    /\ Toggle(d, reopen_day(DB, d, now),
              IF lifecycle[d] \in {"closed", "reopened"} THEN "reopened" ELSE "open")
    /\ UNCHANGED snapshot

LoadTemplate ==
    /\ Call([op |-> "load_template"], load_template(DB))
    /\ UNCHANGED <<lifecycle, snapshot>>

SaveTemplate(template_data) ==
    /\ Call([op |-> "save_template"], save_template(DB, template_data))
    /\ UNCHANGED <<lifecycle, snapshot>>

ResetTemplate ==
    /\ Call([op |-> "reset_template"], reset_template(DB))
    /\ UNCHANGED <<lifecycle, snapshot>>

Next ==
    \/ Initialize
    \/ \E d \in Days : GetDay(d)
    \/ \E d \in Days, item_id \in ItemIdInputs, checked \in BOOLEAN,
          evidence \in EvidenceInputs, why \in WhyInputs, now \in Timestamps :
          MarkItem(d, item_id, checked, evidence, why, now)
    \/ \E d \in Days, now \in Timestamps : CloseDay(d, now)
    \/ \E d \in Days, now \in Timestamps : ReopenDay(d, now)
    \/ LoadTemplate
    \/ \E template_data \in TemplateInputs : SaveTemplate(template_data)
    \/ ResetTemplate

Spec == Init /\ [][Next]_vars

-----------------------------------------------------------------------------
(* The template store under a wider range of save_template arguments *)

\* {"id": "a", "text": "A"}: a dict, not a list
NotAListTemplate == PyDict([id |-> PyStr("a"), text |-> PyStr("A")])

\* [5]
NonDictItemTemplate == PyList(<<PyInt(5)>>)

\* [{"id": "a", "text": "A"}, {"id": "b"}]
MissingTextTemplate ==
    PyList(<<PyDict([id |-> PyStr("a"), text |-> PyStr("A")]),
             PyDict([id |-> PyStr("b")])>>)

\* [{"id": "", "text": ""}]
BlankItemTemplate == PyList(<<PyDict([id |-> PyStr(""), text |-> PyStr("")])>>)

\* [{"id": "a", "text": "A", "subitems": [{"id": ""}]}]
BlankSubitemTemplate ==
    PyList(<<PyDict([id |-> PyStr("a"), text |-> PyStr("A"),
                     subitems |-> PyList(<<PyDict([id |-> PyStr("")])>>)])>>)

\* [{"id": "a", "text": "A", "subitems": [{"id": "1", "text": "A1"}]},
\*  {"id": "a:1", "text": "B"}]
CollidingIdTemplate ==
    PyList(<<PyDict([id |-> PyStr("a"), text |-> PyStr("A"),
                     subitems |-> PyList(<<PyDict([id |-> PyStr("1"),
                                                   text |-> PyStr("A1")])>>)]),
             PyDict([id |-> PyStr("a:1"), text |-> PyStr("B")])>>)

TemplateArguments ==
    {EmptyTemplate, SubitemTemplate, NotAListTemplate, NonDictItemTemplate,
     MissingTextTemplate, BlankItemTemplate, BlankSubitemTemplate, CollidingIdTemplate}

TemplateNext ==
    \/ Initialize
    \/ \E d \in Days : GetDay(d)
    \/ LoadTemplate
    \/ \E template_data \in TemplateArguments : SaveTemplate(template_data)
    \/ ResetTemplate

TemplateSpec == Init /\ [][TemplateNext]_vars

-----------------------------------------------------------------------------
(* The service started on a database file it finds *)

\* What the data column of the template row may hold when the file was written
\* by an earlier run or changed outside the service.
StoredTexts ==
    {"oops", "{}", "[{\"id\": \"a\"}]", "[5]", "[]",
     Dumps(DEFAULT_TEMPLATE),
     "[{\"id\": \"a\", \"text\": \"A\", \"importance\": 1, \"subitems\": [{\"id\": \"1\", \"text\": \"A1\"}]}]"}

\* A file with the tables of an earlier run, whose template table is empty or
\* holds one of StoredTexts.
FoundInit ==
    /\ schema = TRUE
    /\ template \in {{}} \cup {{[id |-> 1, data |-> t]} : t \in StoredTexts}
    /\ day_item = {}
    /\ day_status = {}
    /\ last = [op |-> "construct", raised |-> NoError]
    /\ lifecycle = [d \in Days |-> "fresh"]
    /\ snapshot = [d \in Days |-> <<>>]
    /\ callers = [c \in Callers |-> Idle]
    /\ txn = NoTransaction

FoundNext ==
    \/ Initialize
    \/ \E d \in Days : GetDay(d)
    \/ LoadTemplate
    \/ \E template_data \in TemplateInputs : SaveTemplate(template_data)
    \/ ResetTemplate

FoundSpec == FoundInit /\ [][FoundNext]_vars

-----------------------------------------------------------------------------
(* The template expander on its own: flatten applied to a family of templates *)

\* Sub-items {"id": "1", "text": "S"}, {"id": "1", "text": "S", "importance": 5}
\* and {"id": "2", "text": "S"}
SubItemInputs ==
    {PyDict([id |-> PyStr("1"), text |-> PyStr("S")]),
     PyDict([id |-> PyStr("1"), text |-> PyStr("S"), importance |-> PyInt(5)]),
     PyDict([id |-> PyStr("2"), text |-> PyStr("S")])}

\* The subitems an item is given: [], one sub-item or two.
SubItemLists ==
    {<<>>} \cup {<<x>> : x \in SubItemInputs}
           \cup {<<x, y>> : x \in SubItemInputs, y \in SubItemInputs}

\* Items of id "a", "b" or "a:1", with or without importance, with or without
\* subitems.
ItemInputs ==
    LET plain == {PyDict([id |-> PyStr(id), text |-> PyStr("T")])
                      : id \in {"a", "b", "a:1"}}
        weighted == plain \cup {PyDict(x.d @@ [importance |-> PyInt(3)]) : x \in plain}
    IN weighted \cup {PyDict(x.d @@ [subitems |-> PyList(l)])
                          : x \in weighted, l \in SubItemLists}

\* The templates of up to two items.
FlattenInputs ==
    {PyList(<<>>)} \cup {PyList(<<x>>) : x \in ItemInputs}
                   \cup {PyList(<<x, y>>) : x \in ItemInputs, y \in ItemInputs}

\* A caller holding one of the templates.
FlattenInit ==
    /\ schema = FALSE
    /\ template = {}
    /\ day_item = {}
    /\ day_status = {}
    /\ last \in {[op |-> "template", raised |-> NoError, template_data |-> T]
                     : T \in FlattenInputs}
    /\ lifecycle = [d \in Days |-> "fresh"]
    /\ snapshot = [d \in Days |-> <<>>]
    /\ callers = [c \in Callers |-> Idle]
    /\ txn = NoTransaction

\* What the caller holds after flatten(template_data) came back with r.
Flattened(template_data, r) ==
    [op |-> "flatten", template_data |-> template_data, raised |-> r.raised,
     ret |-> IF r.raised = NoError THEN r.flat ELSE <<>>]

\* TemplateRepository.flatten(template_data): a static method, no database.
Flatten ==
    /\ last.op = "template"
    /\ last' = Flattened(last.template_data, flatten(last.template_data))
    /\ UNCHANGED <<schema, template, day_item, day_status, lifecycle, snapshot,
                   callers, txn>>

FlattenNext == Flatten

FlattenSpec == FlattenInit /\ [][FlattenNext]_vars

-----------------------------------------------------------------------------
(* The calendar: two days of the built-in template and the month's markers *)

\* Days of January 2024 with a one-digit and a two-digit number.
CalendarDays == {2, 10}

\* The (month_start, month_end) the calendar asks for.
CalendarRanges == {<<2, 10>>, <<3, 10>>, <<10, 2>>}

\* Items of the built-in template the user marks.
CalendarItemIds == {"progress", "care"}

CalendarInit ==
    /\ schema = FALSE
    /\ template = {}
    /\ day_item = {}
    /\ day_status = {}
    /\ last = [op |-> "construct", raised |-> NoError]
    /\ lifecycle = [d \in CalendarDays |-> "fresh"]
    /\ snapshot = [d \in CalendarDays |-> <<>>]
    /\ callers = [c \in Callers |-> Idle]
    /\ txn = NoTransaction

GetCheckedDays(month_start, month_end) ==
    /\ Call([op |-> "get_checked_days", month_start |-> month_start,
             month_end |-> month_end],
            get_checked_days(DB, month_start, month_end))
    /\ UNCHANGED <<lifecycle, snapshot>>

CalendarNext ==
    \/ Initialize
    \/ \E d \in CalendarDays : GetDay(d)
    \/ \E d \in CalendarDays, item_id \in CalendarItemIds, now \in Timestamps :
          \/ MarkItem(d, item_id, TRUE, "did X", "", now)
          \/ MarkItem(d, item_id, FALSE, "", "", now)
    \/ \E d \in CalendarDays, now \in Timestamps : CloseDay(d, now)
    \/ \E d \in CalendarDays, now \in Timestamps : ReopenDay(d, now)
    \/ \E range \in CalendarRanges : GetCheckedDays(range[1], range[2])

CalendarSpec == CalendarInit /\ [][CalendarNext]_vars

-----------------------------------------------------------------------------
(* Templates with values that save does not look at *)

\* [{"id": "a", "text": "A", "importance": "x"}]
TextImportanceTemplate ==
    PyList(<<PyDict([id |-> PyStr("a"), text |-> PyStr("A"),
                     importance |-> PyStr("x")])>>)

\* [{"id": "a", "text": "A", "importance": None}]
NullImportanceTemplate ==
    PyList(<<PyDict([id |-> PyStr("a"), text |-> PyStr("A"), importance |-> PyNone])>>)

\* [{"id": "a", "text": "A", "subitems": [5]}]
NumberSubitemTemplate ==
    PyList(<<PyDict([id |-> PyStr("a"), text |-> PyStr("A"),
                     subitems |-> PyList(<<PyInt(5)>>)])>>)

\* [{"id": "a", "text": "A", "importance": "2"}]
DigitImportanceTemplate ==
    PyList(<<PyDict([id |-> PyStr("a"), text |-> PyStr("A"),
                     importance |-> PyStr("2")])>>)

UnvalidatedTemplates ==
    {SubitemTemplate, TextImportanceTemplate, NullImportanceTemplate,
     NumberSubitemTemplate, DigitImportanceTemplate}

UnvalidatedNext ==
    \/ Initialize
    \/ \E d \in Days : GetDay(d)
    \/ \E d \in Days, now \in Timestamps : CloseDay(d, now)
    \/ \E d \in Days, now \in Timestamps : ReopenDay(d, now)
    \/ LoadTemplate
    \/ \E template_data \in UnvalidatedTemplates : SaveTemplate(template_data)
    \/ ResetTemplate

UnvalidatedSpec == Init /\ [][UnvalidatedNext]_vars

-----------------------------------------------------------------------------
(* Two days side by side: a template of one item with one sub-item *)

DiaryDays == {1, 2}

DiaryInit ==
    /\ schema = FALSE
    /\ template = {}
    /\ day_item = {}
    /\ day_status = {}
    /\ last = [op |-> "construct", raised |-> NoError]
    /\ lifecycle = [d \in DiaryDays |-> "fresh"]
    /\ snapshot = [d \in DiaryDays |-> <<>>]
    /\ callers = [c \in Callers |-> Idle]
    /\ txn = NoTransaction

DiaryNext ==
    \/ Initialize
    \/ SaveTemplate(SubitemTemplate)
    \/ \E d \in DiaryDays : GetDay(d)
    \/ \E d \in DiaryDays, item_id \in ItemIdInputs, now \in Timestamps :
          \/ MarkItem(d, item_id, TRUE, " did X ", "", now)
          \/ MarkItem(d, item_id, FALSE, "", "", now)
    \/ \E d \in DiaryDays, now \in Timestamps : CloseDay(d, now)
    \/ \E d \in DiaryDays, now \in Timestamps : ReopenDay(d, now)

DiarySpec == DiaryInit /\ [][DiaryNext]_vars

-----------------------------------------------------------------------------
(* instantiate_day_if_needed statement by statement, in two connections *)

\* sqlite3.connect(path) leaves the busy timeout at 5 seconds: a statement that
\* needs the write lock another connection holds waits that long, then raises.
DatabaseIsLocked == "OperationalError: database is locked"

\* The caller returned or raised.
Finished(c, raised) == [callers EXCEPT ![c].pc = "done", ![c].raised = raised]

\* The caller passed the check; it raced when another caller had passed it too
\* and not inserted yet.
Passed(c) ==
    [callers EXCEPT
        ![c].pc = "load",
        ![c].raced = \E o \in Callers \ {c} :
                         callers[o].pc \in {"load", "insert"} /\ callers[o].i = 1]

\* The caller holds flat, the outcome of flatten.
Loaded(c, flat) ==
    IF flat.raised # NoError THEN Finished(c, flat.raised)
    ELSE [callers EXCEPT ![c].pc = "insert", ![c].flat = flat.flat, ![c].i = 1]

\* The rows the connection of c sees: its own transaction's, or the committed.
RowsSeenBy(c) == IF txn.writer = c THEN txn.rows ELSE day_item

\* The connections in the order in which they took the write lock.
OrderWith(c) == IF txn.writer = c THEN txn.order ELSE Append(txn.order, c)

\* SELECT COUNT(*) FROM day_item WHERE day = ?, and the early return
CountRows(c, d) ==
    /\ callers[c].pc = "idle"
    /\ callers' = IF ~schema THEN Finished(c, NoSuchTable)
                  ELSE IF Cardinality(RowsOfDay(day_item, d)) > 0
                  THEN Finished(c, NoError)
                  ELSE Passed(c)
    /\ UNCHANGED <<schema, template, day_item, day_status, last, lifecycle,
                   snapshot, txn>>

\* template_data = self.templates.load(); flat = self.templates.flatten(...)
LoadAndFlatten(c) ==
    /\ callers[c].pc = "load"
    /\ callers' = Loaded(c, flatten(load(DB).ret))
    /\ UNCHANGED <<schema, template, day_item, day_status, last, lifecycle,
                   snapshot, txn>>

\* What one INSERT OR IGNORE of c with outcome r leaves: the row in the
\* transaction of c, or the exception and the rollback.
Inserted(c, r) ==
    IF r.raised # NoError
    THEN /\ callers' = Finished(c, r.raised)
         /\ txn' = [NoTransaction EXCEPT !.order = txn.order]
    ELSE /\ callers' = [callers EXCEPT ![c].i = @ + 1]
         /\ txn' = [writer |-> c, rows |-> r.items, order |-> OrderWith(c)]

\* One INSERT OR IGNORE of the loop: the first takes the write lock, which
\* only one connection holds at a time.
Insert(c, d) ==
    /\ callers[c].pc = "insert"
    /\ callers[c].i <= Len(callers[c].flat)
    /\ txn.writer \in {"none", c}
    /\ Inserted(c, InsertOrIgnore(RowsSeenBy(c), isoformat(d),
                                  callers[c].flat[callers[c].i]))
    /\ UNCHANGED <<schema, template, day_item, day_status, last, lifecycle,
                   snapshot>>

\* The INSERT waited for the write lock of the other connection until the busy
\* timeout ran out.
BusyTimeout(c) ==
    /\ callers[c].pc = "insert"
    /\ callers[c].i <= Len(callers[c].flat)
    /\ txn.writer \notin {"none", c}
    /\ callers' = Finished(c, DatabaseIsLocked)
    /\ UNCHANGED <<schema, template, day_item, day_status, last, lifecycle,
                   snapshot, txn>>

\* conn.commit()
CommitInserts(c) ==
    /\ callers[c].pc = "insert"
    /\ callers[c].i > Len(callers[c].flat)
    /\ callers' = Finished(c, NoError)
    /\ day_item' = RowsSeenBy(c)
    /\ txn' = IF txn.writer = c THEN [NoTransaction EXCEPT !.order = txn.order]
              ELSE txn
    /\ UNCHANGED <<schema, template, day_status, last, lifecycle, snapshot>>

\* Two connections instantiate a day while the template may be saved; a call
\* that writes waits for the write lock.
ConcurrentNext ==
    \/ txn.writer = "none" /\ Initialize
    \/ txn.writer = "none" /\ \E template_data \in {SubitemTemplate, DuplicateIdTemplate} :
                                  SaveTemplate(template_data)
    \/ \E c \in Callers, d \in Days : CountRows(c, d)
    \/ \E c \in Callers : LoadAndFlatten(c)
    \/ \E c \in Callers, d \in Days : Insert(c, d)
    \/ \E c \in Callers : BusyTimeout(c)
    \/ \E c \in Callers : CommitInserts(c)

ConcurrentSpec == Init /\ [][ConcurrentNext]_vars

-----------------------------------------------------------------------------
(* set_item_checked statement by statement, beside the other operations *)

\* The caller is past the checks of set_item_checked and holds its arguments.
PastChecks(c, call) ==
    [callers EXCEPT ![c] = [pc |-> "update", raised |-> NoError, call |-> call]]

\* The caller's set_item_checked raised.
Refused(c, call, raised) ==
    [callers EXCEPT ![c] = [pc |-> "refused", raised |-> raised, call |-> call]]

\* The two checks of set_item_checked, closed being the outcome of
\* is_day_closed, which reads day_status in a connection of its own.
Checked(c, call, closed) ==
    IF call.checked /\ Strip(call.evidence) = "" THEN Refused(c, call, EvidenceRequired)
    ELSE IF closed.raised # NoError THEN Refused(c, call, closed.raised)
    ELSE IF closed.ret THEN Refused(c, call, DayIsClosed)
    ELSE PastChecks(c, call)

\* if checked and not evidence.strip(): raise ...; if self.is_day_closed(day): raise ...
CheckDayOpen(c, d, item_id, checked, evidence, why) ==
    /\ callers[c].pc = "idle"
    /\ callers' = Checked(c, [day |-> d, item_id |-> item_id, checked |-> checked,
                              evidence |-> evidence, why |-> why],
                          is_day_closed(DB, d))
    /\ UNCHANGED <<schema, template, day_item, day_status, last, lifecycle,
                   snapshot, txn>>

\* The caller's UPDATE is committed; closed tells whether the day was closed
\* when it was, rows are the rows it changed.
Updated(c, closed, rows) ==
    [callers EXCEPT ![c] = [pc |-> "updated", raised |-> NoError,
                            call |-> callers[c].call, on_closed_day |-> closed.ret,
                            rowcount |-> Cardinality(rows)]]

\* with self.db.connect() as conn: conn.execute("UPDATE day_item ..."); conn.commit()
UpdateAndCommit(c, now) ==
    /\ callers[c].pc = "update"
    /\ Commit(UpdateChecked(DB, callers[c].call.day, callers[c].call.item_id,
                            callers[c].call.checked, callers[c].call.evidence,
                            callers[c].call.why, now))
    /\ callers' = Updated(c, is_day_closed(DB, callers[c].call.day),
                          {r \in RowsOfDay(day_item, callers[c].call.day) :
                               r.item_id = callers[c].call.item_id})
    /\ UNCHANGED <<last, lifecycle, snapshot, txn>>

\* Two callers mark items while the days are read, closed and reopened.
InterleavedNext ==
    \/ Initialize
    \/ \E d \in Days : GetDay(d)
    \/ \E d \in Days, now \in Timestamps : CloseDay(d, now)
    \/ \E d \in Days, now \in Timestamps : ReopenDay(d, now)
    \/ \E c \in Callers, d \in Days, item_id \in CalendarItemIds :
          \/ CheckDayOpen(c, d, item_id, TRUE, "did X", "")
          \/ CheckDayOpen(c, d, item_id, FALSE, "", "")
    \/ \E c \in Callers, now \in Timestamps : UpdateAndCommit(c, now)

InterleavedSpec == Init /\ [][InterleavedNext]_vars

-----------------------------------------------------------------------------
(* Vocabulary of the properties *)

\* s is empty or whitespace only.
Blank(s) == \A i \in 1..Len(s) : CharAt(s, i) \in Whitespace

\* The item_ids of the rows day d has.
ItemIdsOf(d) == {r.item_id : r \in RowsOfDay(day_item, d)}

\* The item_ids a caller may pass for day d: the inputs and the rows' own.
AnyItemId(d) == ItemIdInputs \cup ItemIdsOf(d)

\* The day was closed by close_day and not reopened since.
Closed(d) == lifecycle[d] = "closed"

\* The day was closed, then reopened, and not closed since.
Reopened(d) == lifecycle[d] = "reopened"

\* get_day has returned day d's checklist at least once.
Instantiated(d) == snapshot[d] # <<>>

\* The row as instantiation leaves it.
Unmarked(row) ==
    row.checked = 0 /\ row.evidence = "" /\ row.why = "" /\ row.checked_at = PyNone

\* The row carries the flattened line's item_id, item_text and importance.
Carries(row, line) ==
    /\ row.item_id = line.item_id
    /\ PyStr(row.item_text) = line.item_text
    /\ row.importance = line.importance

\* items holds exactly one unmarked row per line of flat.
OnePerLine(items, flat) ==
    /\ Len(items) = Len(flat)
    /\ \A i \in 1..Len(flat) : \E j \in 1..Len(items) : Carries(items[j], flat[i])
    /\ \A j \in 1..Len(items) :
           Unmarked(items[j]) /\ \E i \in 1..Len(flat) : Carries(items[j], flat[i])

\* items holds exactly one unmarked row per item_id of flat, carrying the first
\* line of flat that has the item_id.
OnePerItemId(items, flat) ==
    /\ \A j, k \in 1..Len(items) : items[j].item_id = items[k].item_id => j = k
    /\ \A i \in 1..Len(flat) : \E j \in 1..Len(items) : items[j].item_id = flat[i].item_id
    /\ \A j \in 1..Len(items) :
           /\ Unmarked(items[j])
           /\ \E i \in 1..Len(flat) :
                  /\ Carries(items[j], flat[i])
                  /\ \A h \in 1..(i - 1) : flat[h].item_id # items[j].item_id

\* The templates a caller saves, the built-in default among them.
SavedTemplates == TemplateInputs \cup {DEFAULT_TEMPLATE}

\* The template table as initialize leaves it when nothing was saved.
NothingSaved == template = {[id |-> 1, data |-> Dumps(DEFAULT_TEMPLATE)]}

\* The item with importance 1 and subitems [] where it has none.
Filled(item) == PyDict(item.d @@ [importance |-> PyInt(1), subitems |-> PyList(<<>>)])

\* X with the defaults filled into its top-level items.
TopLevelFilled(X) == PyList([i \in 1..Len(X.l) |-> Filled(X.l[i])])

\* X with the defaults filled into its items and their sub-items.
AllFilled(X) ==
    PyList([i \in 1..Len(X.l) |->
        LET item == Filled(X.l[i]) IN
        PyDict([item.d EXCEPT !.subitems =
            PyList([j \in 1..Len(item.d.subitems.l) |-> Filled(item.d.subitems.l[j])])])])

\* The id, importance and sub-items of each item of template t.
Summary(t) ==
    [i \in 1..Len(t.l) |-> <<t.l[i].d.id.s, t.l[i].d.importance.n, t.l[i].d.subitems.l>>]

BuiltInSummary ==
    << <<"progress", 3, <<>> >>, <<"care", 2, <<>> >>, <<"maintenance", 2, <<>> >> >>

-----------------------------------------------------------------------------
(* Properties *)

\* C1, as stated: while day D is closed (after close_day(D), until the next
\* reopen_day(D)), every mark_item(D, item_id, checked, evidence, why) fails
\* with the day-closed error, whatever its arguments.
MarkOnClosedDayRaisesDayClosed ==
    \A d \in Days : Closed(d) =>
        \A item_id \in AnyItemId(d), checked \in BOOLEAN, evidence \in EvidenceInputs,
           why \in WhyInputs, now \in Timestamps :
            mark_item(DB, d, item_id, checked, evidence, why, now).raised = DayIsClosed

\* C1, amended: while day D is closed, every mark_item(D, ...) fails and leaves
\* the rows alone: with the evidence error when checked is true and the
\* evidence is blank, with the day-closed error otherwise.
MarkOnClosedDayFails ==
    \A d \in Days : Closed(d) =>
        \A item_id \in AnyItemId(d), checked \in BOOLEAN, evidence \in EvidenceInputs,
           why \in WhyInputs, now \in Timestamps :
            mark_item(DB, d, item_id, checked, evidence, why, now).raised =
                IF checked /\ Blank(evidence) THEN EvidenceRequired ELSE DayIsClosed

\* C1 witness: a mark_item on a closed day was refused with the day-closed error.
MarkRefusedOnClosedDay ==
    /\ last.op = "mark_item"
    /\ Closed(last.day)
    /\ last.raised = DayIsClosed

\* C2: on a day that was closed and then reopened, mark_item(D, I, true,
\* evidence, why) on an existing item I with evidence that is not blank
\* succeeds, and the next get_day(D) shows I with checked = 1, the trimmed
\* evidence, the trimmed why, and checked_at set.
MarkAfterReopenSucceeds ==
    \A d \in Days : Reopened(d) =>
        \A item_id \in ItemIdsOf(d), evidence \in EvidenceInputs,
           why \in WhyInputs, now \in Timestamps :
            ~Blank(evidence) =>
                LET marked == mark_item(DB, d, item_id, TRUE, evidence, why, now)
                    next == get_day(marked.db, d)
                IN
                /\ marked.raised = NoError
                /\ next.raised = NoError
                /\ \E j \in 1..Len(next.ret.items) :
                       LET row == next.ret.items[j] IN
                       /\ row.item_id = item_id
                       /\ row.checked = 1
                       /\ row.evidence = Strip(evidence)
                       /\ ~Blank(row.evidence)
                       /\ row.why = Strip(why)
                       /\ row.checked_at = PyStr(now)

\* C2 witness: after close and reopen, the last call marked an item checked and
\* its row holds the trimmed evidence and why.
MarkedAfterReopen ==
    /\ last.op = "mark_item"
    /\ last.raised = NoError
    /\ Reopened(last.day)
    /\ \E r \in RowsOfDay(day_item, last.day) :
           /\ r.item_id = last.item_id
           /\ r.checked = 1
           /\ r.evidence = "did X"
           /\ r.why = "because"
           /\ r.checked_at # PyNone

\* C3: mark_item(D, I, true, evidence, why) with blank evidence fails with the
\* evidence error in every state: day open or closed, instantiated or not,
\* item I present or not.
BlankEvidenceRejected ==
    \A d \in Days :
        \A item_id \in AnyItemId(d), evidence \in EvidenceInputs,
           why \in WhyInputs, now \in Timestamps :
            Blank(evidence) =>
                mark_item(DB, d, item_id, TRUE, evidence, why, now).raised
                    = EvidenceRequired

\* C3 witness: a mark_item with blank evidence was refused on a closed day.
BlankEvidenceRefusedOnClosedDay ==
    /\ last.op = "mark_item"
    /\ last.raised = EvidenceRequired
    /\ Closed(last.day)
    /\ RowsOfDay(day_item, last.day) # {}

\* C4: every stored day_item row that is checked has evidence that is not blank
\* and has checked_at set; every row that is not checked has checked_at NULL.
CheckedHasEvidence ==
    \A r \in day_item :
        /\ r.checked \in {0, 1}
        /\ r.checked = 1 => ~Blank(r.evidence) /\ r.checked_at # PyNone
        /\ r.checked = 0 => r.checked_at = PyNone

\* C4 witness: one row is checked, and another was checked and then unchecked
\* with its evidence kept.
CheckedAndUncheckedRows ==
    \E r, q \in day_item :
        /\ r.checked = 1
        /\ q.checked = 0
        /\ q.evidence # ""

LaterGetDayLeavesRows ==
    \A d \in Days : Instantiated(d) =>
        LET later == get_day(DB, d) IN
        /\ later.raised = NoError
        /\ RowsOfDay(later.db.day_item, d) = RowsOfDay(day_item, d)

\* C7, as stated: once get_day(D) has instantiated day D, a later get_day(D)
\* returns the item_ids, item_texts and importances the first one returned,
\* whatever templates were saved or reset in between, the empty template at
\* instantiation time included.
DayIsOneTimeSnapshot ==
    \A d \in Days : Instantiated(d) =>
        LET later == get_day(DB, d) IN
        /\ later.raised = NoError
        /\ Lines(later.ret.items) = snapshot[d][1]

\* C8, as stated: on an open day D, mark_item(D, item_id, checked, evidence,
\* why) with valid evidence fails with NotFoundError when day_item has no row
\* (D, item_id), D never instantiated included.
MissingRowRaisesNotFound ==
    \A d \in Days, item_id \in ItemIdInputs, checked \in BOOLEAN,
       evidence \in EvidenceInputs, why \in WhyInputs, now \in Timestamps :
        /\ schema
        /\ ~is_day_closed(DB, d).ret
        /\ checked => ~Blank(evidence)
        /\ item_id \notin ItemIdsOf(d)
        => mark_item(DB, d, item_id, checked, evidence, why, now).raised = "NotFoundError"

\* C9, as stated: after initialize, save_template(X) of an accepted X and then
\* load_template() returns X with importance 1 and subitems [] filled in
\* wherever they are absent, in items and sub-items, whatever was stored before.
SaveLoadFillsAllDefaults ==
    schema =>
        \A X \in SavedTemplates :
            LET saved == save_template(DB, X)
                loaded == load_template(saved.db)
            IN /\ saved.raised = NoError
               /\ loaded.raised = NoError
               /\ loaded.ret = AllFilled(X)

\* C9, amended: after initialize, save_template(X) of an accepted X and then
\* load_template() returns X with importance 1 and subitems [] filled into the
\* top-level items that lack them, and the sub-items as given, whatever was
\* stored before.
SaveLoadFillsTopLevelDefaults ==
    schema =>
        \A X \in SavedTemplates :
            LET saved == save_template(DB, X)
                loaded == load_template(saved.db)
            IN /\ saved.raised = NoError
               /\ loaded.raised = NoError
               /\ loaded.ret = TopLevelFilled(X)

\* C9 witness: load_template returned the template with a sub-item that was
\* saved without importance and subitems, the defaults filled in at top level.
LoadedSavedSubitemTemplate ==
    /\ last.op = "load_template"
    /\ last.raised = NoError
    /\ last.ret = TopLevelFilled(SubitemTemplate)
    /\ last.ret # SubitemTemplate

\* C10: after initialize, reset_template() returns the built-in default
\* (progress/3, care/2, maintenance/2, no sub-items) and the load_template()
\* after it returns the same, whatever was saved before.
ResetRestoresDefault ==
    schema =>
        LET reset == reset_template(DB)
            loaded == load_template(reset.db)
        IN /\ reset.raised = NoError
           /\ reset.ret = DEFAULT_TEMPLATE
           /\ Summary(reset.ret) = BuiltInSummary
           /\ loaded.raised = NoError
           /\ loaded.ret = DEFAULT_TEMPLATE
           /\ Summary(loaded.ret) = BuiltInSummary

\* C10 witness: reset_template returned the default in a state where a day was
\* instantiated from a saved template of item "a" and the default is stored.
ResetAfterSavedTemplate ==
    /\ last.op = "reset_template"
    /\ last.raised = NoError
    /\ last.ret = DEFAULT_TEMPLATE
    /\ NothingSaved
    /\ \E r \in day_item : r.item_id = "a"

\* C16: whenever get_day(D) or is_day_closed(D) returns, the closed flag is
\* true exactly when the most recent close_day(D) or reopen_day(D) that took
\* effect was close_day(D), and false when neither ever did; after initialize
\* both return; closing a closed day leaves it closed and reopening an open
\* day leaves it open.
ClosedFlagFollowsLastCall ==
    \A d \in DOMAIN lifecycle :
        LET day == get_day(DB, d)
            flag == is_day_closed(DB, d)
        IN /\ schema => day.raised = NoError /\ flag.raised = NoError
           /\ day.raised = NoError => day.ret.closed = Closed(d)
           /\ flag.raised = NoError => flag.ret = Closed(d)
           /\ schema =>
                  \A now \in Timestamps :
                      /\ Closed(d) => is_day_closed(close_day(DB, d, now).db, d).ret
                      /\ ~Closed(d) => ~is_day_closed(reopen_day(DB, d, now).db, d).ret

\* C16 witness: get_day reported an open day after the day was closed and then
\* reopened.
GetDayReportedReopenedDay ==
    /\ last.op = "get_day"
    /\ last.raised = NoError
    /\ Reopened(last.day)
    /\ last.ret.closed = FALSE

\* C17: every stored day_status row has closed = 1 exactly when closed_at is
\* set.
ClosedIffStamped ==
    \A r \in day_status :
        /\ r.closed \in {0, 1}
        /\ r.closed = 1 <=> r.closed_at # PyNone

\* C17 witness: the row of a day that was closed and then reopened: closed = 0
\* and closed_at cleared.
ReopenedRowUnstamped ==
    \E d \in DOMAIN lifecycle :
        /\ Reopened(d)
        /\ \E r \in day_status : r.day = isoformat(d) /\ r.closed = 0 /\ r.closed_at = PyNone

\* C18: initialize() stores the built-in default exactly when no template is
\* stored, and a second or later initialize() leaves the stored template, every
\* day_item row and every day_status row as they are.
InitializeIsIdempotent ==
    LET again == initialize(DB) IN
    /\ again.raised = NoError
    /\ again.db.schema
    /\ template = {} => again.db.template = {[id |-> 1, data |-> Dumps(DEFAULT_TEMPLATE)]}
    /\ template # {} => again.db.template = template
    /\ again.db.day_item = day_item
    /\ again.db.day_status = day_status
    /\ initialize(again.db).db = again.db

\* C18 witness: initialize() was called again with a saved template stored, a
\* day instantiated from it and a day_status row.
InitializedAgainOverSavedTemplate ==
    /\ last.op = "initialize"
    /\ ~NothingSaved
    /\ \E r \in day_item : r.item_id = "a:1"
    /\ day_status # {}

\* The item is a record that carries id and text.
CarriesIdAndText(item) == IsDict(item) /\ HasKey(item, "id") /\ HasKey(item, "text")

\* X is not a list, or an element of X is not a record carrying id and text.
Malformed(X) ==
    ~IsList(X) \/ \E i \in 1..Len(X.l) : ~CarriesIdAndText(X.l[i])

\* The item's id and text are strings that are not empty.
NamedItem(item) ==
    /\ CarriesIdAndText(item)
    /\ IsStr(item.d.id) /\ item.d.id.s # ""
    /\ IsStr(item.d.text) /\ item.d.text.s # ""

\* Every item and every sub-item of X has an id and a text that are not empty.
AllNamed(X) ==
    /\ IsList(X)
    /\ \A i \in 1..Len(X.l) :
           /\ NamedItem(X.l[i])
           /\ HasKey(X.l[i], "subitems") /\ IsList(X.l[i].d.subitems) =>
                  \A j \in 1..Len(X.l[i].d.subitems.l) : NamedItem(X.l[i].d.subitems.l[j])

\* C11: save_template(X) raises the validation error when X is not a list or
\* an element of X is not a record carrying id and text; whenever
\* save_template raises, the template table is as before and load_template()
\* gives what it gave before.
MalformedSaveRejected ==
    \A X \in TemplateArguments :
        LET saved == save_template(DB, X) IN
        /\ ~IsList(X) => saved.raised = "ValueError: Template must be a list"
        /\ IsList(X) /\ Malformed(X) =>
               saved.raised = "ValueError: Each item must have id and text"
        /\ saved.raised # NoError =>
               /\ After(DB, saved).template = template
               /\ load_template(After(DB, saved)) = load_template(DB)
        /\ schema /\ ~Malformed(X) => saved.raised = NoError

\* C11 witness: save_template raised the validation error while a saved
\* template with a sub-item stays stored.
SaveRejectedOverSavedTemplate ==
    /\ last.op = "save_template"
    /\ last.raised = "ValueError: Each item must have id and text"
    /\ schema
    /\ load_template(DB).ret = TopLevelFilled(SubitemTemplate)

\* C12, as stated: after initialize, whatever save_template and reset_template
\* calls were made, every item and sub-item of the stored template has an id
\* and a text that are not empty, and save_template rejects every template
\* that has an item or sub-item without them.
StoredTemplateAllNamed ==
    schema =>
        /\ load_template(DB).raised = NoError
        /\ AllNamed(load_template(DB).ret)
        /\ \A X \in TemplateArguments :
               ~AllNamed(X) => save_template(DB, X).raised # NoError

\* The stored text is not a list of records that carry id and text.
MalformedText(text) == ~Loads(text).ok \/ Malformed(Loads(text).v)

\* C19, as stated: load_template() never raises; it returns the built-in
\* default when no template is stored or the stored text does not parse, is
\* not a list, or is a list with an element without id or text, and the stored
\* template otherwise.
LoadNeverFails ==
    LET loaded == load_template(DB) IN
    /\ loaded.raised = NoError
    /\ loaded.ret = IF template = {} \/ \E r \in template : MalformedText(r.data)
                    THEN DEFAULT_TEMPLATE
                    ELSE Loads((CHOOSE r \in template : r.id = 1).data).v


-----------------------------------------------------------------------------
(* The depth-one expansion of a template *)

\* The sub-items an item was given.
SubsOf(item) == IF HasKey(item, "subitems") THEN item.d.subitems.l ELSE <<>>

\* The line of a top-level item: its own id, its importance or 1.
TopLine(item) ==
    [item_id |-> item.d.id.s, item_text |-> item.d.text,
     importance |-> IF HasKey(item, "importance") THEN item.d.importance.n ELSE 1]

\* The line of a sub-item: "<parent_id>:<sub_id>", its own importance when given,
\* else the parent's, else 1.
SubLine(item, sub) ==
    [item_id |-> item.d.id.s \o ":" \o sub.d.id.s, item_text |-> sub.d.text,
     importance |-> IF HasKey(sub, "importance") THEN sub.d.importance.n
                    ELSE TopLine(item).importance]

\* The reference expansion: each top-level item in order, each followed at once
\* by its sub-items in order.
RECURSIVE Expansion(_)
Expansion(items) ==
    IF items = <<>> THEN <<>>
    ELSE <<TopLine(Head(items))>>
         \o [j \in 1..Len(SubsOf(Head(items))) |->
                 SubLine(Head(items), SubsOf(Head(items))[j])]
         \o Expansion(Tail(items))

\* The number of items plus sub-items of a template.
RECURSIVE Size(_)
Size(items) ==
    IF items = <<>> THEN 0 ELSE 1 + Len(SubsOf(Head(items))) + Size(Tail(items))

\* The elements of a sequence are pairwise distinct.
Distinct(seq) == \A i, j \in 1..Len(seq) : seq[i] = seq[j] => i = j

\* The ids of a sequence of items or sub-items.
IdsOf(items) == [i \in 1..Len(items) |-> items[i].d.id.s]

\* Top-level ids are pairwise distinct and sub-item ids are distinct within
\* each parent.
DistinctPerLevel(items) ==
    /\ Distinct(IdsOf(items))
    /\ \A i \in 1..Len(items) : Distinct(IdsOf(SubsOf(items[i])))

\* The string holds a ":".
HasColon(str) == \E i \in 1..Len(str) : CharAt(str, i) = ":"

\* No top-level id holds a ":".
PlainTopLevelIds(items) == \A i \in 1..Len(items) : ~HasColon(items[i].d.id.s)

\* The rows of day 1 once the template T was saved to a new database and the
\* day instantiated.
RowsInstantiatedFrom(T) ==
    RowsOfDay(instantiate_day_if_needed(
                  save_template(initialize(DB).db, T).db, 1).db.day_item, 1)

\* C13: flatten(T) returns the reference depth-one expansion of T: the top-level
\* items in order under their own ids, each followed at once by its sub-items in
\* order under "<parent_id>:<sub_id>", a sub-item's importance being its own when
\* given and else its parent's (1 when the parent has none).
FlattenIsDepthOneExpansion ==
    last.op = "flatten" =>
        /\ last.raised = NoError
        /\ last.ret = Expansion(last.template_data.l)

\* A template was flattened in which a sub-item inherits its parent's importance
\* and a second top-level item follows the sub-items of the first.
FlattenedInheritingSubitem ==
    /\ last.op = "flatten"
    /\ Len(last.ret) = 4
    /\ last.ret[2].item_id = "a:2" /\ last.ret[2].importance = 3
    /\ last.ret[3].item_id = "a:1" /\ last.ret[3].importance = 5
    /\ last.ret[4].item_id = "b" /\ last.ret[4].importance = 1

\* C14 as stated: ids distinct per level make the item_ids of flatten(T) pairwise
\* distinct, and instantiation creates as many rows as items plus sub-items.
DistinctIdsGiveDistinctItemIds ==
    last.op = "flatten" /\ DistinctPerLevel(last.template_data.l) =>
        /\ Distinct([i \in 1..Len(last.ret) |-> last.ret[i].item_id])
        /\ Cardinality(RowsInstantiatedFrom(last.template_data))
               = Size(last.template_data.l)

\* C14: when the ids are distinct per level and no top-level id holds a ":", the
\* item_ids of flatten(T) are pairwise distinct, and instantiation creates as
\* many rows as there are items plus sub-items.
DistinctPlainIdsGiveDistinctItemIds ==
    last.op = "flatten" /\ DistinctPerLevel(last.template_data.l)
                        /\ PlainTopLevelIds(last.template_data.l) =>
        /\ Distinct([i \in 1..Len(last.ret) |-> last.ret[i].item_id])
        /\ Cardinality(RowsInstantiatedFrom(last.template_data))
               = Size(last.template_data.l)

\* A template of two parents with the same sub-item ids was flattened.
FlattenedParentsSharingSubitemIds ==
    /\ last.op = "flatten"
    /\ DistinctPerLevel(last.template_data.l)
    /\ PlainTopLevelIds(last.template_data.l)
    /\ Len(last.ret) = 6
    /\ last.ret[2].item_id = "a:1" /\ last.ret[3].item_id = "a:2"
    /\ last.ret[5].item_id = "b:1" /\ last.ret[6].item_id = "b:2"


-----------------------------------------------------------------------------
(* The month's markers *)

\* The days a month_start or month_end may be.
RangeDays == {1, 2, 3, 10, 11}

\* The days from start to end that have a stored row currently checked.
DaysWithCheckedItem(start, end) ==
    {D \in start..end : \E r \in day_item : r.day = isoformat(D) /\ r.checked = 1}

\* C15: get_checked_days(start, end) returns (once the tables exist) exactly the
\* days from start to end that have at least one stored row currently checked,
\* so a day whose rows were all unchecked again is not returned; close_day and
\* reopen_day of any day leave the result as it was.
CheckedDaysAreDaysWithCheckedItem ==
    /\ \A start \in RangeDays : \A end \in RangeDays :
           LET days == get_checked_days(DB, start, end) IN
           /\ schema => days.raised = NoError
           /\ days.raised = NoError =>
                  days.ret = {isoformat(D) : D \in DaysWithCheckedItem(start, end)}
    /\ schema =>
           \A range \in CalendarRanges : \A d \in CalendarDays : \A now \in Timestamps :
               LET days == get_checked_days(DB, range[1], range[2]) IN
               /\ get_checked_days(After(DB, close_day(DB, d, now)),
                                   range[1], range[2]).ret = days.ret
               /\ get_checked_days(After(DB, reopen_day(DB, d, now)),
                                   range[1], range[2]).ret = days.ret

\* The calendar asked for the 2nd to the 10th and got the 10th alone: the 10th
\* is closed with an item checked, the 2nd is reopened with every item unchecked.
CheckedDaysOfClosedAndUncheckedDay ==
    /\ last.op = "get_checked_days" /\ last.month_start = 2 /\ last.month_end = 10
    /\ last.raised = NoError
    /\ last.ret = {"2024-01-10"}
    /\ lifecycle[10] = "closed"
    /\ lifecycle[2] = "reopened"
    /\ RowsOfDay(day_item, 2) # {}
    /\ \A r \in RowsOfDay(day_item, 2) : r.checked = 0
    /\ \E r \in RowsOfDay(day_item, 10) : r.checked = 1

-----------------------------------------------------------------------------
(* Two connections instantiating one day *)

\* The lines the connections inserted, in the order in which they wrote.
RECURSIVE LinesWritten(_)
LinesWritten(order) ==
    IF order = <<>> THEN <<>>
    ELSE callers[Head(order)].flat \o LinesWritten(Tail(order))

\* Both callers came back, and one of them passed the check while the other
\* had passed it and not inserted yet.
RaceIsOver ==
    /\ \A c \in Callers : callers[c].pc = "done"
    /\ \E c \in Callers : callers[c].raced

\* The day holds exactly one row per item_id, the one written first.
FirstWrittenRowsKept ==
    \A d \in Days :
        OnePerItemId(OrderByItemId(RowsOfDay(day_item, d)), LinesWritten(txn.order))

-----------------------------------------------------------------------------
(* What the operations leave alone *)

\* The rows other than the row of item_id on day d.
RowsBut(items, d, item_id) ==
    {r \in items : ~(r.day = isoformat(d) /\ r.item_id = item_id)}

\* What a row was given at instantiation.
Instance(r) ==
    [day |-> r.day, item_id |-> r.item_id, item_text |-> r.item_text,
     importance |-> r.importance]

\* C22: mark_item(D, I, ...) changes at most checked, evidence, why and
\* checked_at of the row (D, I): that row's item_text and importance, every other
\* day_item row, every day_status row and the stored template are as before, and
\* a mark_item that raises leaves the whole store as it was.
MarkItemChangesOneRow ==
    \A d \in Days : \A item_id \in AnyItemId(d) :
        \A checked \in BOOLEAN, evidence \in EvidenceInputs,
           why \in WhyInputs, now \in Timestamps :
            LET marked == mark_item(DB, d, item_id, checked, evidence, why, now)
                after == After(DB, marked)
            IN
            /\ after.schema = schema
            /\ after.template = template
            /\ after.day_status = day_status
            /\ RowsBut(after.day_item, d, item_id) = RowsBut(day_item, d, item_id)
            /\ {Instance(r) : r \in after.day_item} = {Instance(r) : r \in day_item}
            /\ Cardinality(after.day_item) = Cardinality(day_item)
            /\ marked.raised \in {EvidenceRequired, DayIsClosed} => after = DB

\* An item was marked on a day that has another row, left unmarked, and a
\* day_status row.
MarkedOneRowOfTwo ==
    /\ last.op = "mark_item" /\ last.raised = NoError
    /\ \E r, q \in RowsOfDay(day_item, last.day) :
           /\ r.item_id = last.item_id /\ r.checked = 1
           /\ q.item_id # last.item_id /\ Unmarked(q)
    /\ day_status # {}

\* The day_status rows of the days other than d.
StatusBut(status, d) == {r \in status : r.day # isoformat(d)}

\* C23: close_day(D) and reopen_day(D) succeed (once the tables exist) whether
\* all, some or none of D's items are checked, and leave every day_item row of
\* every day, the day_status rows of the other days and the stored template as
\* they were.
CloseAndReopenLeaveRows ==
    schema =>
        \A d \in DiaryDays : \A now \in Timestamps :
            \A toggled \in {close_day(DB, d, now), reopen_day(DB, d, now)} :
                /\ toggled.raised = NoError
                /\ toggled.db.day_item = day_item
                /\ toggled.db.template = template
                /\ StatusBut(toggled.db.day_status, d) = StatusBut(day_status, d)

\* A day with one item checked and one not was closed while the other day,
\* closed too, has all its items checked.
ClosedPartlyCheckedDay ==
    /\ last.op = "close_day" /\ last.raised = NoError /\ last.day = 1
    /\ \E r, q \in RowsOfDay(day_item, 1) : r.checked = 1 /\ q.checked = 0
    /\ RowsOfDay(day_item, 2) # {}
    /\ \A r \in RowsOfDay(day_item, 2) : r.checked = 1
    /\ \E r \in day_status : r.day = isoformat(2) /\ r.closed = 1

\* What a later mark_item of day e does: what it raises and the rows of e after.
LaterMark(db, e, item_id, checked, evidence, now) ==
    LET marked == mark_item(db, e, item_id, checked, evidence, "", now) IN
    <<marked.raised, RowsOfDay(After(db, marked).day_item, e)>>

\* The store after call r left day e as it was: its rows, its closed flag and
\* what a later mark_item of it does.
LeavesDay(r, e) ==
    LET after == After(DB, r) IN
    /\ RowsOfDay(after.day_item, e) = RowsOfDay(day_item, e)
    /\ is_day_closed(after, e).raised = is_day_closed(DB, e).raised
    /\ schema => is_day_closed(after, e).ret = is_day_closed(DB, e).ret
    /\ \A item_id \in ItemIdInputs, now \in Timestamps :
           /\ LaterMark(after, e, item_id, TRUE, " did X ", now)
                  = LaterMark(DB, e, item_id, TRUE, " did X ", now)
           /\ LaterMark(after, e, item_id, FALSE, "", now)
                  = LaterMark(DB, e, item_id, FALSE, "", now)

\* C24: for distinct days D and E, no get_day(D), mark_item(D, ...), close_day(D)
\* or reopen_day(D) changes a day_item row of E, the closed flag of E or the
\* outcome of a later mark_item(E, ...).
DaysAreIndependent ==
    \A d \in DiaryDays : \A e \in DiaryDays \ {d} : \A now \in Timestamps :
        /\ LeavesDay(get_day(DB, d), e)
        /\ LeavesDay(close_day(DB, d, now), e)
        /\ LeavesDay(reopen_day(DB, d, now), e)
        /\ \A item_id \in ItemIdInputs :
               /\ LeavesDay(mark_item(DB, d, item_id, TRUE, " did X ", "", now), e)
               /\ LeavesDay(mark_item(DB, d, item_id, FALSE, "", "", now), e)

\* An item was marked on day 1 while day 2, closed, holds the same item unmarked.
MarkedDayBesideClosedDay ==
    /\ last.op = "mark_item" /\ last.raised = NoError /\ last.day = 1
    /\ \E r \in RowsOfDay(day_item, 1) : r.item_id = last.item_id /\ r.checked = 1
    /\ \E q \in RowsOfDay(day_item, 2) : q.item_id = last.item_id /\ Unmarked(q)
    /\ lifecycle[2] = "closed"

-----------------------------------------------------------------------------
(* The order of a day's items *)

\* The item_ids of the items, in their order.
ItemIdsInOrder(items) == [j \in 1..Len(items) |-> items[j].item_id]

\* Each item_id is lexicographically before the next.
Ascending(ids) == \A j \in 1..(Len(ids) - 1) : StrLess(ids[j], ids[j + 1])

\* C25: get_day(D) returns the day's items in ascending lexicographic order of
\* item_id, whatever their order in the template, and a further get_day(D)
\* returns them in the same order.
GetDayIsSortedByItemId ==
    schema =>
        \A d \in Days :
            LET first == get_day(DB, d)
                again == get_day(After(DB, first), d)
            IN
            /\ first.raised = NoError /\ again.raised = NoError
            /\ Ascending(ItemIdsInOrder(first.ret.items))
            /\ ItemIdsInOrder(again.ret.items) = ItemIdsInOrder(first.ret.items)
            /\ {first.ret.items[j] : j \in 1..Len(first.ret.items)}
                   = RowsOfDay(After(DB, first).day_item, d)

\* get_day returned care, maintenance, progress for a day instantiated from the
\* built-in template, whose order is progress, care, maintenance.
GetDayReorderedBuiltInTemplate ==
    /\ last.op = "get_day" /\ last.raised = NoError
    /\ ItemIdsInOrder(last.ret.items) = <<"care", "maintenance", "progress">>
    /\ ItemIdsInOrder(flatten(DEFAULT_TEMPLATE).flat)
           = <<"progress", "care", "maintenance">>

-----------------------------------------------------------------------------
(* Templates that were saved and cannot be instantiated *)

\* C26: every template that save_template accepts can be instantiated: after
\* save_template(X) has succeeded, get_day(D) of a day without rows returns
\* without error and creates the day's rows.
AcceptedTemplateInstantiates ==
    schema =>
        \A X \in UnvalidatedTemplates :
            LET saved == save_template(DB, X) IN
            saved.raised = NoError =>
                \A d \in Days : RowsOfDay(day_item, d) = {} =>
                    LET first == get_day(saved.db, d) IN
                    /\ first.raised = NoError
                    /\ RowsOfDay(first.db.day_item, d) # {}

-----------------------------------------------------------------------------
(* The rows of a closed day *)

\* The stores that one call other than reopen_day(d) and get_day(d) can leave.
StoresAfterCallBut(d) ==
    {After(DB, initialize(DB)), After(DB, reset_template(DB))}
    \cup {After(DB, save_template(DB, T)) : T \in TemplateInputs}
    \cup {After(DB, close_day(DB, d, now)) : now \in Timestamps}
    \cup {After(DB, get_day(DB, e)) : e \in Days \ {d}}
    \cup {After(DB, mark_item(DB, e, item_id, checked, evidence, why, now)) :
              e \in Days, item_id \in ItemIdInputs, checked \in BOOLEAN,
              evidence \in EvidenceInputs, why \in WhyInputs, now \in Timestamps}

\* C27 as stated: from close_day(D) to the next reopen_day(D) no get_day,
\* mark_item, save_template, reset_template, close_day or initialize adds, removes
\* or changes a stored row of D, a D closed before it was instantiated included.
ClosedDayIsFrozen ==
    \A d \in Days : Closed(d) =>
        \A db \in StoresAfterCallBut(d) \cup {After(DB, get_day(DB, d))} :
            RowsOfDay(db.day_item, d) = RowsOfDay(day_item, d)

\* C27: from close_day(D) to the next reopen_day(D) no get_day, mark_item,
\* save_template, reset_template, close_day or initialize removes or changes a
\* stored row of D, and none adds a row to D, except get_day(D) when D has no
\* rows, which instantiates the closed day.
ClosedDayRowsAreFrozen ==
    \A d \in Days : Closed(d) =>
        /\ \A db \in StoresAfterCallBut(d) :
               RowsOfDay(db.day_item, d) = RowsOfDay(day_item, d)
        /\ RowsOfDay(day_item, d) # {} =>
               RowsOfDay(After(DB, get_day(DB, d)).day_item, d) = RowsOfDay(day_item, d)

\* get_day returned the rows of a closed day, one of them checked, that was
\* instantiated from the template of one item with a sub-item, while the stored
\* template is the one of two items of id "a".
GetDayOfClosedDayAfterSave ==
    /\ last.op = "get_day" /\ last.raised = NoError
    /\ Closed(last.day)
    /\ ItemIdsInOrder(last.ret.items) = <<"a", "a:1">>
    /\ \E r \in RowsOfDay(day_item, last.day) : r.checked = 1
    /\ load_template(DB).ret = TopLevelFilled(DuplicateIdTemplate)

-----------------------------------------------------------------------------
(* mark_item beside close_day *)

\* C21: mark_item is atomic with respect to the closed-day check: when it
\* interleaves with another caller's close_day of the day, no update of a row of
\* the day commits while the day's day_status row is closed.
NoUpdateCommitsOnClosedDay ==
    \A c \in Callers :
        callers[c].pc = "updated" /\ callers[c].rowcount > 0 => ~callers[c].on_closed_day

====
